---- MODULE Spec2Model ----
(***************************************************************************)
(* Model of the clash-rule-tester matching engine.                         *)
(*                                                                         *)
(* A JavaScript string is modelled as a sequence of atoms.  An atom is a   *)
(* single character ("g", ".", "*", ",", ...) or, inside a rule line, a    *)
(* keyword that is never looked into ("DOMAIN-SUFFIX", "PROXY", ...).      *)
(* The rule type IP-CIDR6 is the two atoms <<"IP-CIDR", "6">>, so that     *)
(* startsWith('IP-CIDR') and the comparison of the type are both computed. *)
(*                                                                         *)
(* The repository holds two implementations of matchDomain and of          *)
(* matchAgainstRuleList: the one of src/src/core/ruleMatcher.ts (scored    *)
(* provider matching, matchers written inline) and the one in the second   *)
(* half of src/src/core/network.ts (first-line provider matching, built on *)
(* the helpers isWildcardMatch and matchDomainRule).  The variable impl    *)
(* says which one the build runs.                                          *)
(***************************************************************************)
EXTENDS Integers, Sequences, FiniteSets, TLC

\* ---------------------------------------------------------------- strings

Null == <<"null">>

LowerPairs == [G |-> "g", W |-> "w", C |-> "c", A |-> "a"]
UpperPairs == [g |-> "G", w |-> "W", c |-> "C", a |-> "A"]

LowerAtom(c) == IF c \in DOMAIN LowerPairs THEN LowerPairs[c] ELSE c
UpperAtom(c) == IF c \in DOMAIN UpperPairs THEN UpperPairs[c] ELSE c

toLowerCase(s) == [i \in 1..Len(s) |-> LowerAtom(s[i])]
toUpperCase(s) == [i \in 1..Len(s) |-> UpperAtom(s[i])]

startsWith(s, t) == Len(t) <= Len(s) /\ SubSeq(s, 1, Len(t)) = t
endsWith(s, t) == Len(t) <= Len(s) /\ SubSeq(s, Len(s) - Len(t) + 1, Len(s)) = t
includes(s, t) == \E i \in 0..(Len(s) - Len(t)) : SubSeq(s, i + 1, i + Len(t)) = t
substring(s, n) == SubSeq(s, n + 1, Len(s))

\* s.split(sep): the fields between the separators, kept in order.
RECURSIVE splitOn(_, _)
splitOn(s, sep) ==
  IF \A i \in 1..Len(s) : s[i] # sep
  THEN <<s>>
  ELSE LET k == CHOOSE i \in 1..Len(s) :
                  s[i] = sep /\ \A j \in 1..(i - 1) : s[j] # sep
       IN <<SubSeq(s, 1, k - 1)>> \o splitOn(SubSeq(s, k + 1, Len(s)), sep)

split(s) == splitOn(s, ",")

IsSpace(c) == c = " "
RECURSIVE trimStart(_)
trimStart(s) == IF s # <<>> /\ IsSpace(Head(s)) THEN trimStart(Tail(s)) ELSE s
RECURSIVE trimEnd(_)
trimEnd(s) ==
  IF s # <<>> /\ IsSpace(s[Len(s)]) THEN trimEnd(SubSeq(s, 1, Len(s) - 1)) ELSE s
trim(s) == trimEnd(trimStart(s))

\* ------------------------------------------------- regular expressions
\* A compiled pattern is a sequence of items [cls, c, plus]: cls "lit"
\* accepts the atom c, "nondot" any atom but ".", "word" any letter,
\* "nonword" any atom but a letter, "never" nothing a domain can hold; plus
\* is the + quantifier.  Invalid is what
\* new RegExp throws on.
Invalid == <<[cls |-> "invalid", c |-> "", plus |-> FALSE]>>
Item(cls, c, plus) == [cls |-> cls, c |-> c, plus |-> plus]

Letters == {"g", "c", "w", "a", "G", "W", "C", "A"}

Accepts(it, ch) ==
  CASE it.cls = "lit" -> ch = it.c
    [] it.cls = "nondot" -> ch # "."
    [] it.cls = "word" -> ch \in Letters
    [] it.cls = "nonword" -> ch \notin Letters
    [] OTHER -> FALSE

\* RegExp.prototype.test of the anchored pattern ^items$ on d, by backtracking.
RECURSIVE RegexRun(_, _, _, _)
RegexRun(items, i, d, j) ==
  IF i > Len(items)
  THEN j > Len(d)
  ELSE /\ j <= Len(d)
       /\ Accepts(items[i], d[j])
       /\ \/ RegexRun(items, i + 1, d, j + 1)
          \/ items[i].plus /\ RegexRun(items, i, d, j + 1)

RegexTest(items, d) == items # Invalid /\ RegexRun(items, 1, d, 1)

\* A "+" in the pattern text quantifies the item before it; with nothing to
\* repeat (no item, or an item already quantified) the pattern is invalid.
Quantify(done) ==
  IF done = Invalid \/ done = <<>> \/ done[Len(done)].plus
  THEN Invalid
  ELSE SubSeq(done, 1, Len(done) - 1)
         \o <<Item(done[Len(done)].cls, done[Len(done)].c, TRUE)>>

\* helper.ts: rule.replace(/\./g, '\\.').replace(/\*/g, '[^.]+')
RECURSIVE helperRegex(_, _)
helperRegex(p, done) ==
  IF done = Invalid \/ p = <<>> THEN done
  ELSE CASE Head(p) = "." -> helperRegex(Tail(p), done \o <<Item("lit", ".", FALSE)>>)
         [] Head(p) = "*" -> helperRegex(Tail(p), done \o <<Item("nondot", "", TRUE)>>)
         [] Head(p) = "+" -> helperRegex(Tail(p), Quantify(done))
         [] OTHER -> helperRegex(Tail(p), done \o <<Item("lit", Head(p), FALSE)>>)

\* The item the escape \X stands for in a JavaScript pattern: \w is the word
\* class and \W its complement, \c starts a control escape, and the text
\* after a dot that is last, or followed by "." or "*", is a literal "$",
\* "\" or "[" (no domain holds one); any other letter escapes to itself.
EscapeItem(x) ==
  CASE x = "w" -> Item("word", "", FALSE)
    [] x = "W" -> Item("nonword", "", FALSE)
    [] x \in {"c", ".", "*", "$"} -> Item("never", "", FALSE)
    [] OTHER -> Item("lit", x, FALSE)

\* ruleMatcher.ts: line.replace(/\./g, '\\.\\').replace(/\*/g, '[^.]+'): every
\* dot becomes \.\ and the backslash left behind escapes the next character.
RECURSIVE scoredRegex(_, _)
scoredRegex(p, done) ==
  IF done = Invalid \/ p = <<>> THEN done
  ELSE CASE Head(p) = "." ->
              IF Len(p) = 1
              THEN done \o <<Item("lit", ".", FALSE), EscapeItem("$")>>
              ELSE scoredRegex(SubSeq(p, 3, Len(p)),
                               done \o <<Item("lit", ".", FALSE), EscapeItem(p[2])>>)
         [] Head(p) = "*" -> scoredRegex(Tail(p), done \o <<Item("nondot", "", TRUE)>>)
         [] Head(p) = "+" -> scoredRegex(Tail(p), Quantify(done))
         [] OTHER -> scoredRegex(Tail(p), done \o <<Item("lit", Head(p), FALSE)>>)

\* ------------------------------------------------------------ helper.ts

\* isWildcardMatch with a slip: a '+.' rule is matched like a '.' rule,
\* without the comparison with the root.
isWildcardMatchEagerNoRoot(domainToMatch, rule) ==
  LET lowerCaseDomain == toLowerCase(domainToMatch)
      lowerCaseRule == toLowerCase(rule)
  IN IF lowerCaseDomain = lowerCaseRule THEN TRUE
     ELSE IF startsWith(lowerCaseRule, <<"+", ".">>)
     THEN endsWith(lowerCaseDomain, <<".">> \o substring(lowerCaseRule, 2))
     ELSE IF startsWith(lowerCaseRule, <<".">>)
     THEN endsWith(lowerCaseDomain, <<".">> \o substring(lowerCaseRule, 1))
     ELSE IF includes(lowerCaseRule, <<"*">>)
     THEN RegexTest(helperRegex(lowerCaseRule, <<>>), lowerCaseDomain)
     ELSE FALSE

\* isWildcardMatch with a slip: a '.' rule is matched like a '+.' rule, the
\* root included.
isWildcardMatchDotRoot(domainToMatch, rule) ==
  LET lowerCaseDomain == toLowerCase(domainToMatch)
      lowerCaseRule == toLowerCase(rule)
  IN IF lowerCaseDomain = lowerCaseRule THEN TRUE
     ELSE IF startsWith(lowerCaseRule, <<"+", ".">>)
     THEN LET suffixRule == substring(lowerCaseRule, 2)
          IN lowerCaseDomain = suffixRule
               \/ endsWith(lowerCaseDomain, <<".">> \o suffixRule)
     ELSE IF startsWith(lowerCaseRule, <<".">>)
     THEN LET suffixRule == substring(lowerCaseRule, 1)
          IN lowerCaseDomain = suffixRule
               \/ endsWith(lowerCaseDomain, <<".">> \o suffixRule)
     ELSE IF includes(lowerCaseRule, <<"*">>)
     THEN RegexTest(helperRegex(lowerCaseRule, <<>>), lowerCaseDomain)
     ELSE FALSE

\* isWildcardMatch with a slip: a rule of no special form is matched as a
\* suffix of the domain.
isWildcardMatchPlainSuffix(domainToMatch, rule) ==
  LET lowerCaseDomain == toLowerCase(domainToMatch)
      lowerCaseRule == toLowerCase(rule)
  IN IF lowerCaseDomain = lowerCaseRule THEN TRUE
     ELSE IF startsWith(lowerCaseRule, <<"+", ".">>)
     THEN LET suffixRule == substring(lowerCaseRule, 2)
          IN lowerCaseDomain = suffixRule
               \/ endsWith(lowerCaseDomain, <<".">> \o suffixRule)
     ELSE IF startsWith(lowerCaseRule, <<".">>)
     THEN LET suffixRule == substring(lowerCaseRule, 1)
          IN endsWith(lowerCaseDomain, <<".">> \o suffixRule)
     ELSE IF includes(lowerCaseRule, <<"*">>)
     THEN RegexTest(helperRegex(lowerCaseRule, <<>>), lowerCaseDomain)
     ELSE endsWith(lowerCaseDomain, <<".">> \o lowerCaseRule)

isWildcardMatch(domainToMatch, rule) ==
  LET lowerCaseDomain == toLowerCase(domainToMatch)
      lowerCaseRule == toLowerCase(rule)
  IN IF lowerCaseDomain = lowerCaseRule THEN TRUE
     ELSE IF startsWith(lowerCaseRule, <<"+", ".">>)
     THEN LET suffixRule == substring(lowerCaseRule, 2)
          IN lowerCaseDomain = suffixRule
               \/ endsWith(lowerCaseDomain, <<".">> \o suffixRule)
     ELSE IF startsWith(lowerCaseRule, <<".">>)
     THEN LET suffixRule == substring(lowerCaseRule, 1)
          IN endsWith(lowerCaseDomain, <<".">> \o suffixRule)
     ELSE IF includes(lowerCaseRule, <<"*">>)
     THEN RegexTest(helperRegex(lowerCaseRule, <<>>), lowerCaseDomain)
     ELSE FALSE

isDomainSuffixMatch(domainToMatch, rule) ==
  LET lowerCaseDomain == toLowerCase(domainToMatch)
      lowerCaseRule == toLowerCase(rule)
  IN lowerCaseDomain = lowerCaseRule
       \/ endsWith(lowerCaseDomain, <<".">> \o lowerCaseRule)

matchDomainRule(domain, rule) ==
  LET parts == split(rule)
  IN IF Len(parts) < 2 THEN FALSE
     ELSE LET ruleType == toUpperCase(parts[1])
              value == parts[2]
              lowerCaseDomain == toLowerCase(domain)
          IN CASE ruleType = <<"DOMAIN-SUFFIX">> -> isDomainSuffixMatch(lowerCaseDomain, value)
               [] ruleType = <<"DOMAIN">> -> lowerCaseDomain = toLowerCase(value)
               [] ruleType = <<"DOMAIN-KEYWORD">> -> includes(lowerCaseDomain, toLowerCase(value))
               [] OTHER -> FALSE

\* ------------------------------------------------------------- ip-cidr
\* new CIDR(value).contains(ip) of the ip-cidr package, on the addresses and
\* blocks of the model: a block is <<n, "/", ...>>, block "0" holds every
\* address and block n the address n; anything else is an invalid block, on
\* which the constructor throws (FALSE here: every caller catches it).
CIDRValid(value) == Len(value) >= 3 /\ value[2] = "/" /\ value[1] \in {"0", "1", "2"}
CIDRContains(value, ip) == CIDRValid(value) /\ (value[1] = "0" \/ value[1] = ip[1])

\* The test with a slip: null passes for an address.
TruthyWithNull(str) == str # <<>>

\* if (resolvedIp): null and the empty string are falsy.
Truthy(str) == str # Null /\ str # <<>>

\* ---------------------------------- ruleMatcher.ts: scored provider match

NoScore == 0 - 1

ExactScore == 4000
WildcardScore == 3000
SuffixScore == 2000
KeywordScore == 1000

RECURSIVE without(_, _)
without(s, ch) ==
  IF s = <<>> THEN <<>>
  ELSE IF Head(s) = ch THEN without(Tail(s), ch)
  ELSE <<Head(s)>> \o without(Tail(s), ch)

\* The score of one line of the loop body (ruleMatcher.ts 64-100).
lineScore(line, lowerCaseDomain, resolvedIp, behavior) ==
  IF behavior = "domain"
  THEN IF startsWith(line, <<"+", ".">>)
       THEN LET value == substring(line, 2)
            IN IF lowerCaseDomain = value THEN ExactScore + Len(value)
               ELSE IF endsWith(lowerCaseDomain, <<".">> \o value)
               THEN SuffixScore + Len(value)
               ELSE NoScore
       ELSE IF startsWith(line, <<".">>)
       THEN LET value == substring(line, 1)
            IN IF endsWith(lowerCaseDomain, <<".">> \o value)
               THEN SuffixScore + Len(value)
               ELSE NoScore
       ELSE IF includes(line, <<"*">>)
       THEN IF RegexTest(scoredRegex(line, <<>>), lowerCaseDomain)
            THEN WildcardScore + Len(without(line, "*"))
            ELSE NoScore
       ELSE IF lowerCaseDomain = line THEN ExactScore + Len(line) ELSE NoScore
  ELSE IF behavior = "ipcidr"
  THEN IF Truthy(resolvedIp) /\ CIDRContains(line, resolvedIp)
       THEN KeywordScore + Len(line)
       ELSE NoScore
  ELSE LET parts == split(line)
           type == toUpperCase(parts[1])
       IN IF Len(parts) < 2 \/ parts[2] = <<>> THEN NoScore
          ELSE LET value == parts[2]
               IN IF \/ type = <<"DOMAIN">> /\ lowerCaseDomain = toLowerCase(value)
                     \/ type = <<"DOMAIN-SUFFIX">> /\ lowerCaseDomain = toLowerCase(value)
                  THEN ExactScore + Len(value)
                  ELSE IF /\ type = <<"DOMAIN-SUFFIX">>
                          /\ endsWith(lowerCaseDomain, <<".">> \o toLowerCase(value))
                  THEN SuffixScore + Len(value)
                  ELSE IF /\ type = <<"DOMAIN-KEYWORD">>
                          /\ includes(lowerCaseDomain, toLowerCase(value))
                  THEN KeywordScore + Len(value)
                  ELSE IF /\ type = <<"IP-CIDR">> /\ Truthy(resolvedIp)
                          /\ CIDRContains(value, resolvedIp)
                  THEN KeywordScore + Len(value)
                  ELSE NoScore

\* if (score > bestMatch.score) bestMatch = { rule: line, score: score }
betterMatch(score, best) == score > best.score

RECURSIVE scoredLoop(_, _, _, _, _)
scoredLoop(rules, bestMatch, lowerCaseDomain, resolvedIp, behavior) ==
  IF rules = <<>> THEN bestMatch
  ELSE LET line == Head(rules)
           score == lineScore(line, lowerCaseDomain, resolvedIp, behavior)
       IN scoredLoop(Tail(rules),
                     IF betterMatch(score, bestMatch)
                     THEN [rule |-> line, score |-> score]
                     ELSE bestMatch,
                     lowerCaseDomain, resolvedIp, behavior)

scoredMatchAgainstRuleList(domain, resolvedIp, rules, behavior) ==
  LET bestMatch == scoredLoop(rules, [rule |-> <<>>, score |-> NoScore],
                              toLowerCase(domain), resolvedIp, behavior)
  IN IF bestMatch.score # NoScore THEN bestMatch.rule ELSE Null

\* ------------------------------- network.ts: first-line provider match

isRuleMatch(line, lowerCaseDomain, resolvedIp, behavior) ==
  IF behavior = "domain" THEN isWildcardMatch(lowerCaseDomain, line)
  ELSE IF behavior = "ipcidr"
  THEN Truthy(resolvedIp) /\ CIDRContains(line, resolvedIp)
  ELSE LET parts == split(line)
           type == toUpperCase(parts[1])
       IN IF Len(parts) < 2 \/ parts[2] = <<>> THEN FALSE
          ELSE LET value == parts[2]
               IN IF type \in {<<"DOMAIN">>, <<"DOMAIN-SUFFIX">>, <<"DOMAIN-KEYWORD">>}
                  THEN matchDomainRule(lowerCaseDomain, value)
                  ELSE /\ type = <<"IP-CIDR">> /\ Truthy(resolvedIp)
                       /\ CIDRContains(value, resolvedIp)

RECURSIVE firstLoop(_, _, _, _)
firstLoop(rules, lowerCaseDomain, resolvedIp, behavior) ==
  IF rules = <<>> THEN Null
  ELSE IF isRuleMatch(Head(rules), lowerCaseDomain, resolvedIp, behavior)
  THEN Head(rules)
  ELSE firstLoop(Tail(rules), lowerCaseDomain, resolvedIp, behavior)

firstMatchAgainstRuleList(domain, resolvedIp, rules, behavior) ==
  firstLoop(rules, toLowerCase(domain), resolvedIp, behavior)

\* The matchAgainstRuleList of the implementation in use.
matchAgainstRuleList(im, domain, resolvedIp, rules, behavior) ==
  IF im = "ruleMatcher"
  THEN scoredMatchAgainstRuleList(domain, resolvedIp, rules, behavior)
  ELSE firstMatchAgainstRuleList(domain, resolvedIp, rules, behavior)

\* ------------------------------------------------------ the configuration

Join3(a, b, c) == a \o <<",">> \o b \o <<",">> \o c

Root == <<"g", ".", "c">>
Sub == <<"w", ".", "g", ".", "c">>
SubUpper == <<"W", ".", "G", ".", "c">>
Glued == <<"a", "g", ".", "c">>

\* The domains a user tests: a root, a subdomain of it written in capitals
\* and a name that ends with the root's text without being a subdomain of it.
Domains == {Root, SubUpper, Glued}

SuffixLine == Join3(<<"DOMAIN-SUFFIX">>, Root, <<"PROXY">>)
KeywordLine == Join3(<<"DOMAIN-KEYWORD">>, <<"a", "g">>, <<"REJECT">>)
CidrLine == Join3(<<"IP-CIDR">>, <<"1", "/", "8">>, <<"DIRECT">>)
Cidr6Line == Join3(<<"IP-CIDR", "6">>, <<"0", "/", "0">>, <<"DIRECT">>)
HttpSetLine == Join3(<<"RULE-SET">>, <<"h">>, <<"REJECT">>)
InlineSetLine == Join3(<<"RULE-SET">>, <<"i">>, <<"PROXY">>)
DanglingLine == Join3(<<"RULE-SET">>, <<"m">>, <<"PROXY">>)
MatchLine == <<"MATCH", ",", "DIRECT">>
BareLine == <<"MATCH">>

RuleLines ==
  {SuffixLine, KeywordLine, CidrLine, Cidr6Line, HttpSetLine, InlineSetLine,
   DanglingLine, MatchLine, BareLine}

MaxRules == 2

RuleLists == UNION {[1..n -> RuleLines] : n \in 0..MaxRules}

Url == <<"u">>
NoUrl == <<>>

ClassicalSuffix == <<"DOMAIN-SUFFIX", ",">> \o Root
ClassicalExact == <<"DOMAIN", ",">> \o Sub
ClassicalCidr == <<"IP-CIDR", ",", "1", "/", "8">>
EagerSuffix == <<"+", ".">> \o Root
WildcardLabel == <<"*", ".">> \o Root

Provider(type, behavior, url, format, payload) ==
  [type |-> type, behavior |-> behavior, url |-> url, format |-> format,
   payload |-> payload]

\* The rule-providers maps of the model: provider h is fetched, provider i
\* is inline; no map has a provider m.
ProviderMaps ==
  { (<<"h">> :> Provider("http", "domain", Url, "text", Null))
      @@ (<<"i">> :> Provider("inline", "classical", NoUrl, "undefined",
                              <<ClassicalSuffix>>)),
    (<<"h">> :> Provider("http", "classical", Url, "yaml", Null))
      @@ (<<"i">> :> Provider("inline", "domain", NoUrl, "undefined",
                              <<EagerSuffix, WildcardLabel>>)),
    (<<"h">> :> Provider("http", "ipcidr", Url, "undefined", Null))
      @@ (<<"i">> :> Provider("inline", "classical", NoUrl, "undefined",
                              <<ClassicalCidr, ClassicalExact>>)) }

\* --------------------------------------------------- the network's answers

Lines(ls) ==
  IF ls = <<>> THEN <<>>
  ELSE LET F[i \in 1..Len(ls)] ==
             IF i = 1 THEN ls[1] ELSE F[i - 1] \o <<"\n">> \o ls[i]
       IN F[Len(ls)]

PayloadA == <<EagerSuffix, ClassicalSuffix, <<"1", "/", "8">>, <<"0", "/", "0">>>>
PayloadB == <<Sub, ClassicalExact, <<"0", "/", "0">>>>

\* What fetch(CORS_PROXY + url) can come to: the promise rejects, the status
\* is not OK, or a body arrives.  text is the body; yaml is what the YAML
\* parser makes of that text: it throws, or returns a scalar or a mapping,
\* whose payload is Null when it is missing or no array.
Response(kind, ok, yaml, text) == [kind |-> kind, ok |-> ok, yaml |-> yaml, text |-> text]
Yaml(value, payload) == [value |-> value, payload |-> payload]

YamlDoc(payload) ==
  Response("body", TRUE, Yaml("map", payload),
           Lines(<<<<"payload:">>>> \o [i \in 1..Len(payload) |-> <<"-", " ">> \o payload[i]]))

TextDoc(lines) == Response("body", TRUE, Yaml("scalar", Null), Lines(lines))

Responses ==
  { Response("reject", FALSE, Yaml("throw", Null), <<>>),
    Response("body", FALSE, Yaml("throw", Null), <<>>),
    Response("body", TRUE, Yaml("map", Null), <<"x", ":">>),
    YamlDoc(PayloadA),
    TextDoc(<<<<"#">> \o Root, <<" ">> \o EagerSuffix \o <<" ">>, <<" ">>,
              ClassicalSuffix, <<"1", "/", "8">>>>) }

\* With two callers the server may also change its answer between fetches.
ChangingResponses ==
  Responses \cup {YamlDoc(PayloadB), TextDoc(PayloadB),
                  Response("body", TRUE, Yaml("throw", Null), <<":", ":">>)}

\* What the DNS-over-HTTPS query can come to: the request or its JSON fails,
\* the answer has no Answer array, or its first record holds data.
DnsAnswers == {<<"reject">>, <<"none">>, <<"data", <<>>>>, <<"data", <<"1">>>>, <<"data", <<"2">>>>}

\* network.ts resolveDomainToIp: data.Answer?.[0]?.data || null, null on a throw.
resolveDomainToIp(answer) ==
  IF answer[1] = "data" /\ answer[2] # <<>> THEN answer[2] ELSE Null

\* ------------------------------------------------ getRulesFromProvider
NoRules == <<Null>>

RECURSIVE filterLines(_, _)
filterLines(lines, im) ==
  IF lines = <<>> THEN <<>>
  ELSE LET line == Head(lines)
           keep == trim(line) # <<>> /\ ~startsWith(trim(line), <<"#">>)
       IN (IF keep THEN <<IF im = "network" THEN trim(line) ELSE line>> ELSE <<>>)
            \o filterLines(Tail(lines), im)

\* The body of the try block after the fetch has settled: NoRules when it
\* throws (a rejected fetch, a status that is not OK, a YAML document without
\* a payload array), else the rules.  In 'text' format network.ts trims the
\* lines it keeps and ruleMatcher.ts keeps them as they are.
parsedRules(im, response, format) ==
  IF response.kind = "reject" \/ ~response.ok THEN NoRules
  ELSE IF format \in {"yaml", "undefined"}
  THEN IF response.yaml.value # "map" \/ response.yaml.payload = Null
       THEN NoRules
       ELSE response.yaml.payload
  ELSE filterLines(splitOn(response.text, "\n"), im)

\* ---------------------------------------------------------------- state

VARIABLES
  impl,           \* which matchDomain the build runs: "network" or "ruleMatcher"
  rules,          \* config.rules
  providers,      \* config['rule-providers']
  providerCache,  \* the module's Map from URL to rules; NoRules: no entry
  pc,             \* where each evaluation stands
  domain,         \* the domain argument of the evaluation
  resolvedIp,     \* its resolvedIp
  idx,            \* the index of the rule the for loop is at
  result,         \* what matchDomain returned
  seen,           \* for each rule evaluated so far, the providerRules it used
  fetches,        \* the fetch calls of getRulesFromProvider in this evaluation
  lookups,        \* the calls of resolveDomainToIp in this evaluation
  response        \* the last response this evaluation's fetch settled with

vars ==
  <<impl, rules, providers, providerCache, pc, domain, resolvedIp, idx, result,
    seen, fetches, lookups, response>>

Procs == {1, 2}

\* matchDomain has not returned / returned null / threw.
NoResult == [kind |-> "none"]
NoMatch == [kind |-> "null"]
Thrown == [kind |-> "error"]

MatchResult(d, ip, ruleString, subMatchingRule, policy) ==
  [kind |-> "match", domain |-> d, resolvedIp |-> ip, matchingRule |-> ruleString,
   subMatchingRule |-> subMatchingRule, finalPolicy |-> policy]

NoResponse == Response("none", FALSE, Yaml("throw", Null), <<>>)

\* The scan with a slip: every rule list counts as IP based.
hasIpBasedRulesAlways(rs) == Len(rs) >= 0

\* rules.some(r => upper(r).startsWith('IP-CIDR') || upper(r).startsWith('RULE-SET'))
hasIpBasedRules(rs) ==
  \E i \in 1..Len(rs) :
    \/ startsWith(toUpperCase(rs[i]), <<"IP-CIDR">>)
    \/ startsWith(toUpperCase(rs[i]), <<"RULE-SET">>)

\* providers[value]; Undefined when the map has no such key.
Undefined == Provider("undefined", "undefined", NoUrl, "undefined", Null)

\* The lookup with a slip: a name that is no key is taken for a provider to
\* fetch.
providerConfigFetching(provs, value) ==
  IF value \in DOMAIN provs THEN provs[value]
  ELSE Provider("http", "classical", Url, "yaml", Null)

providerConfig(provs, value) == IF value \in DOMAIN provs THEN provs[value] ELSE Undefined

\* The switch with a slip: the cases MATCH and FINAL are missing.
plainMatchNoFinal(im, ruleType, value, d, ip) ==
  LET lowerCaseDomain == toLowerCase(d)
  IN CASE ruleType = <<"DOMAIN-SUFFIX">> ->
            IF im = "ruleMatcher"
            THEN \/ lowerCaseDomain = toLowerCase(value)
                 \/ endsWith(lowerCaseDomain, <<".">> \o toLowerCase(value))
            ELSE isWildcardMatch(lowerCaseDomain, value)
       [] ruleType = <<"DOMAIN">> ->
            IF im = "ruleMatcher"
            THEN lowerCaseDomain = toLowerCase(value)
            ELSE isWildcardMatch(lowerCaseDomain, value)
       [] ruleType = <<"DOMAIN-KEYWORD">> ->
            IF im = "ruleMatcher"
            THEN includes(lowerCaseDomain, toLowerCase(value))
            ELSE isWildcardMatch(lowerCaseDomain, value)
       [] ruleType = <<"IP-CIDR">> -> ip # <<>> /\ ip # Null /\ CIDRContains(value, ip)
       [] OTHER -> FALSE

\* The switch of the for loop on a line that is no RULE-SET line: isMatch.
\* ruleMatcher.ts compares inline, network.ts hands all three domain kinds
\* to isWildcardMatch.
plainMatch(im, ruleType, value, d, ip) ==
  LET lowerCaseDomain == toLowerCase(d)
  IN CASE ruleType = <<"DOMAIN-SUFFIX">> ->
            IF im = "ruleMatcher"
            THEN \/ lowerCaseDomain = toLowerCase(value)
                 \/ endsWith(lowerCaseDomain, <<".">> \o toLowerCase(value))
            ELSE isWildcardMatch(lowerCaseDomain, value)
       [] ruleType = <<"DOMAIN">> ->
            IF im = "ruleMatcher"
            THEN lowerCaseDomain = toLowerCase(value)
            ELSE isWildcardMatch(lowerCaseDomain, value)
       [] ruleType = <<"DOMAIN-KEYWORD">> ->
            IF im = "ruleMatcher"
            THEN includes(lowerCaseDomain, toLowerCase(value))
            ELSE isWildcardMatch(lowerCaseDomain, value)
       [] ruleType = <<"IP-CIDR">> -> Truthy(ip) /\ CIDRContains(value, ip)
       [] ruleType \in {<<"MATCH">>, <<"FINAL">>} -> TRUE
       [] OTHER -> FALSE

\* The RULE-SET case once providerRules is known (NoRules: it stayed null):
\* the subMatchingRule, Null when the line does not match.
ruleSetMatch(im, d, ip, providerRules, behavior) ==
  IF providerRules = NoRules THEN Null
  ELSE LET subMatch == matchAgainstRuleList(im, d, ip, providerRules, behavior)
       IN IF Truthy(subMatch) THEN subMatch ELSE Null

\* The inline branch: the payload if it is an array.
inlineRules(config) == IF config.payload # Null THEN config.payload ELSE NoRules

\* Advance with a slip: a rule that did not match makes the loop jump over
\* the rule after it as well.
AdvanceSkipping(p, isMatch, subMatchingRule, used) ==
  LET ruleString == rules[idx[p]]
      parts == split(ruleString)
  IN IF isMatch
     THEN /\ seen' = [seen EXCEPT ![p] = Append(@, used)]
          /\ result' = [result EXCEPT ![p] =
               MatchResult(domain[p], resolvedIp[p], ruleString, subMatchingRule,
                           parts[Len(parts)])]
          /\ pc' = [pc EXCEPT ![p] = "done"]
          /\ idx' = idx
     ELSE /\ seen' = [seen EXCEPT ![p] = @ \o <<used, NoRules>>]
          /\ idx' = [idx EXCEPT ![p] = @ + 2]
          /\ pc' = [pc EXCEPT ![p] = "loop"]
          /\ result' = result

\* One rule of the for loop is done: return the result on a match, else go
\* on with the next rule.
Advance(p, isMatch, subMatchingRule, used) ==
  LET ruleString == rules[idx[p]]
      parts == split(ruleString)
  IN /\ seen' = [seen EXCEPT ![p] = Append(@, used)]
     /\ IF isMatch
        THEN /\ result' = [result EXCEPT ![p] =
                  MatchResult(domain[p], resolvedIp[p], ruleString, subMatchingRule,
                              parts[Len(parts)])]
             /\ pc' = [pc EXCEPT ![p] = "done"]
             /\ idx' = idx
        ELSE /\ idx' = [idx EXCEPT ![p] = @ + 1]
             /\ pc' = [pc EXCEPT ![p] = "loop"]
             /\ result' = result

\* handleTest calls matchDomain(config, domain): the scan for IP based rules,
\* and the call of resolveDomainToIp if there are any.
Start(p, d) ==
  /\ pc[p] \in {"idle", "done", "error"}
  /\ domain' = [domain EXCEPT ![p] = d]
  /\ resolvedIp' = [resolvedIp EXCEPT ![p] = Null]
  /\ idx' = [idx EXCEPT ![p] = 1]
  /\ result' = [result EXCEPT ![p] = NoResult]
  /\ seen' = [seen EXCEPT ![p] = <<>>]
  /\ fetches' = [fetches EXCEPT ![p] = 0]
  /\ response' = [response EXCEPT ![p] = NoResponse]
  /\ IF hasIpBasedRules(rules)
     THEN /\ pc' = [pc EXCEPT ![p] = "dns"]
          /\ lookups' = [lookups EXCEPT ![p] = 1]
     ELSE /\ pc' = [pc EXCEPT ![p] = "loop"]
          /\ lookups' = [lookups EXCEPT ![p] = 0]
  /\ UNCHANGED <<impl, rules, providers, providerCache>>

\* await resolveDomainToIp(domain) settles.
DnsReturn(p, answer) ==
  /\ pc[p] = "dns"
  /\ resolvedIp' = [resolvedIp EXCEPT ![p] = resolveDomainToIp(answer)]
  /\ pc' = [pc EXCEPT ![p] = "loop"]
  /\ UNCHANGED <<impl, rules, providers, providerCache, domain, idx, result, seen,
                 fetches, lookups, response>>

\* The for loop is over: return null.
Exhausted(p) ==
  /\ pc[p] = "loop"
  /\ idx[p] > Len(rules)
  /\ result' = [result EXCEPT ![p] = NoMatch]
  /\ pc' = [pc EXCEPT ![p] = "done"]
  /\ UNCHANGED <<impl, rules, providers, providerCache, domain, resolvedIp, idx, seen,
                 fetches, lookups, response>>

\* One pass of the for loop, up to its end or to the fetch of
\* getRulesFromProvider.
Step(p) ==
  /\ pc[p] = "loop"
  /\ idx[p] <= Len(rules)
  /\ LET ruleString == rules[idx[p]]
         parts == split(ruleString)
         ruleType == toUpperCase(parts[1])
         value == parts[2]
         config == providerConfig(providers, value)
     IN IF Len(parts) < 2
        THEN Advance(p, FALSE, Null, NoRules)
               /\ UNCHANGED <<providerCache, fetches>>
        ELSE IF ruleType # <<"RULE-SET">>
        THEN Advance(p, plainMatch(impl, ruleType, value, domain[p], resolvedIp[p]),
                     Null, NoRules)
               /\ UNCHANGED <<providerCache, fetches>>
        ELSE IF config = Undefined
        THEN Advance(p, FALSE, Null, NoRules)
               /\ UNCHANGED <<providerCache, fetches>>
        ELSE IF config.type = "http" /\ providerCache[config.url] = NoRules
        THEN /\ pc' = [pc EXCEPT ![p] = "fetch"]
             /\ fetches' = [fetches EXCEPT ![p] = @ + 1]
             /\ UNCHANGED <<providerCache, idx, result, seen>>
        ELSE LET providerRules ==
                   IF config.type = "http" THEN providerCache[config.url]
                   ELSE IF config.type = "inline" THEN inlineRules(config)
                   ELSE NoRules
                 subMatch == ruleSetMatch(impl, domain[p], resolvedIp[p],
                                          providerRules, config.behavior)
             IN Advance(p, subMatch # Null, subMatch, providerRules)
                  /\ UNCHANGED <<providerCache, fetches>>
  /\ UNCHANGED <<impl, rules, providers, domain, resolvedIp, lookups, response>>

\* FetchReturn with a slip: the catch block swallows the failure and the
\* RULE-SET line is skipped.
FetchReturnSwallowing(p, resp) ==
  /\ pc[p] = "fetch"
  /\ response' = [response EXCEPT ![p] = resp]
  /\ LET config == providerConfig(providers, split(rules[idx[p]])[2])
         providerRules == parsedRules(impl, resp, config.format)
         subMatch == ruleSetMatch(impl, domain[p], resolvedIp[p], providerRules,
                                  config.behavior)
     IN IF providerRules = NoRules
        THEN Advance(p, FALSE, Null, NoRules) /\ UNCHANGED providerCache
        ELSE /\ providerCache' = [providerCache EXCEPT ![config.url] = providerRules]
             /\ Advance(p, subMatch # Null, subMatch, providerRules)
  /\ UNCHANGED <<impl, rules, providers, domain, resolvedIp, fetches, lookups>>

\* FetchReturn with a slip: a failed fetch leaves an empty rule list in the
\* cache before the error is thrown.
FetchReturnCachingFailure(p, resp) ==
  /\ pc[p] = "fetch"
  /\ response' = [response EXCEPT ![p] = resp]
  /\ LET config == providerConfig(providers, split(rules[idx[p]])[2])
         providerRules == parsedRules(impl, resp, config.format)
         subMatch == ruleSetMatch(impl, domain[p], resolvedIp[p], providerRules,
                                  config.behavior)
     IN IF providerRules = NoRules
        THEN /\ pc' = [pc EXCEPT ![p] = "error"]
             /\ result' = [result EXCEPT ![p] = Thrown]
             /\ providerCache' = [providerCache EXCEPT ![config.url] = <<>>]
             /\ UNCHANGED <<idx, seen>>
        ELSE /\ providerCache' = [providerCache EXCEPT ![config.url] = providerRules]
             /\ Advance(p, subMatch # Null, subMatch, providerRules)
  /\ UNCHANGED <<impl, rules, providers, domain, resolvedIp, fetches, lookups>>

\* The fetch of getRulesFromProvider settles: on a failure matchDomain
\* rethrows, else the rules are put in the cache and the RULE-SET line is
\* matched against them.
FetchReturn(p, resp) ==
  /\ pc[p] = "fetch"
  /\ response' = [response EXCEPT ![p] = resp]
  /\ LET config == providerConfig(providers, split(rules[idx[p]])[2])
         providerRules == parsedRules(impl, resp, config.format)
         subMatch == ruleSetMatch(impl, domain[p], resolvedIp[p], providerRules,
                                  config.behavior)
     IN IF providerRules = NoRules
        THEN /\ pc' = [pc EXCEPT ![p] = "error"]
             /\ result' = [result EXCEPT ![p] = Thrown]
             /\ UNCHANGED <<providerCache, idx, seen>>
        ELSE /\ providerCache' = [providerCache EXCEPT ![config.url] = providerRules]
             /\ Advance(p, subMatch # Null, subMatch, providerRules)
  /\ UNCHANGED <<impl, rules, providers, domain, resolvedIp, fetches, lookups>>

Next ==
  \/ \E p \in Procs, d \in Domains : Start(p, d)
  \/ \E p \in Procs, answer \in DnsAnswers : DnsReturn(p, answer)
  \/ \E p \in Procs : Step(p)
  \/ \E p \in Procs : Exhausted(p)
  \/ \E p \in Procs, resp \in Responses : FetchReturn(p, resp)

InitState(callers) ==
  /\ impl \in {"network", "ruleMatcher"}
  /\ providers \in ProviderMaps
  /\ providerCache = [u \in {Url} |-> NoRules]
  /\ pc = [p \in Procs |-> IF p \in callers THEN "idle" ELSE "off"]
  /\ domain = [p \in Procs |-> Root]
  /\ resolvedIp = [p \in Procs |-> Null]
  /\ idx = [p \in Procs |-> 1]
  /\ result = [p \in Procs |-> NoResult]
  /\ seen = [p \in Procs |-> <<>>]
  /\ fetches = [p \in Procs |-> 0]
  /\ lookups = [p \in Procs |-> 0]
  /\ response = [p \in Procs |-> NoResponse]

\* One caller testing domain after domain against any rule list.
Init == InitState({1}) /\ rules \in RuleLists

Spec == Init /\ [][Next]_vars

\* Two callers testing one domain at the same time against a rule list that
\* refers to the fetched provider.
ConcurrentLists ==
  {<<HttpSetLine>>, <<HttpSetLine, MatchLine>>, <<InlineSetLine, HttpSetLine>>}

ConcurrentAnswers == {<<"none">>, <<"data", <<"1">>>>}

InitConcurrent == InitState({1, 2}) /\ rules \in ConcurrentLists

NextConcurrent ==
  \/ \E p \in Procs : Start(p, SubUpper)
  \/ \E p \in Procs, answer \in ConcurrentAnswers : DnsReturn(p, answer)
  \/ \E p \in Procs : Step(p)
  \/ \E p \in Procs : Exhausted(p)
  \/ \E p \in Procs, resp \in ChangingResponses : FetchReturn(p, resp)

SpecConcurrent == InitConcurrent /\ [][NextConcurrent]_vars

\* One caller testing domains against a rule list whose only rule refers to
\* an inline provider of behavior domain with a one-line payload: the
\* result is that of the pattern match of the domain against that line.
Deep == <<"a", ".">> \o Sub
Tld == <<"c">>
Other == <<"w", ".", "c">>
DotSuffix == <<".">> \o Root

WildDomains == {Root, Sub, SubUpper, Glued, Deep, Tld, Other, DotSuffix, EagerSuffix}

WildPatterns ==
  { EagerSuffix, <<"+", ".", "G", ".", "c">>, <<"+", ".", "c">>,
    DotSuffix, <<".", "G", ".", "C">>, <<".", "c">>,
    WildcardLabel, <<"*">>, <<"*", ".", "c">>, <<"*", ".", "*">>,
    <<"w", ".", "*", ".", "c">>, <<"a", "*", ".", "c">>, <<"*", ".", "G", ".", "c">>,
    Root, <<"G", ".", "c">>, Sub, Tld }

InitWildcard ==
  /\ impl \in {"network", "ruleMatcher"}
  /\ rules = <<InlineSetLine>>
  /\ providers \in { (<<"i">> :> Provider("inline", "domain", NoUrl, "undefined", <<line>>)) :
                       line \in WildPatterns }
  /\ providerCache = [u \in {Url} |-> NoRules]
  /\ pc = [p \in Procs |-> IF p = 1 THEN "idle" ELSE "off"]
  /\ domain = [p \in Procs |-> Root]
  /\ resolvedIp = [p \in Procs |-> Null]
  /\ idx = [p \in Procs |-> 1]
  /\ result = [p \in Procs |-> NoResult]
  /\ seen = [p \in Procs |-> <<>>]
  /\ fetches = [p \in Procs |-> 0]
  /\ lookups = [p \in Procs |-> 0]
  /\ response = [p \in Procs |-> NoResponse]

NextWildcard ==
  \/ \E p \in Procs, d \in WildDomains : Start(p, d)
  \/ \E p \in Procs, answer \in ConcurrentAnswers : DnsReturn(p, answer)
  \/ \E p \in Procs : Step(p)
  \/ \E p \in Procs : Exhausted(p)

SpecWildcard == InitWildcard /\ [][NextWildcard]_vars

\* ------------------------------------------------------------- properties

\* Whether rule i of the list matches for evaluation p when the address is
\* ip: the test of the switch on rules[i], with the provider rules the
\* evaluation had for it.
RuleMatchesWith(p, i, ip) ==
  LET parts == split(rules[i])
      ruleType == toUpperCase(parts[1])
      value == parts[2]
      config == providerConfig(providers, value)
      used == IF i <= Len(seen[p]) THEN seen[p][i] ELSE NoRules
  IN /\ Len(parts) >= 2
     /\ IF ruleType = <<"RULE-SET">>
        THEN /\ config # Undefined
             /\ ruleSetMatch(impl, domain[p], ip, used, config.behavior) # Null
        ELSE plainMatch(impl, ruleType, value, domain[p], ip)

RuleMatches(p, i) == RuleMatchesWith(p, i, resolvedIp[p])

Returned(p) == pc[p] = "done"

\* C1: whenever matchDomain returns a result, its matchingRule is the rule of
\* the smallest index that matches the domain (with the resolved address and
\* the provider rules of the evaluation), no rule before it matches, and
\* null is returned only when no rule matches.
C1_FirstMatchWins ==
  \A p \in Procs :
    Returned(p) =>
      IF result[p].kind = "match"
      THEN /\ idx[p] \in 1..Len(rules)
           /\ result[p].matchingRule = rules[idx[p]]
           /\ RuleMatches(p, idx[p])
           /\ \A j \in 1..(idx[p] - 1) : ~RuleMatches(p, j)
      ELSE /\ result[p] = NoMatch
           /\ \A j \in 1..Len(rules) : ~RuleMatches(p, j)

\* A RULE-SET line that matched through a sub-rule of its provider is
\* returned although the MATCH rule after it matches as well.
C1_Witness ==
  \E p \in Procs :
    /\ Returned(p) /\ result[p].kind = "match"
    /\ idx[p] = 1 /\ Len(rules) = 2
    /\ result[p].subMatchingRule # Null
    /\ rules[2] = MatchLine

\* Rule i of the list has been evaluated by p, and whether it matched.
Evaluated(p, i) == i \in 1..Len(seen[p])
Matched(p, i) == Returned(p) /\ result[p].kind = "match" /\ idx[p] = i

Kind(ruleString) == toUpperCase(split(ruleString)[1])
Value(ruleString) == split(ruleString)[2]

\* C2: whenever two evaluations have both asked for the same URL before it
\* was in the cache, one fetch only was issued for it: no two fetches of
\* one URL are in flight at the same time.
C2_OneFetchInFlight ==
  \A p, q \in Procs :
    (p # q /\ pc[p] = "fetch" /\ pc[q] = "fetch") =>
      Value(rules[idx[p]]) # Value(rules[idx[q]])

\* Whether a response is a failure of the fetch or of the parse in the format
\* of the provider.
FailureFor(resp, format) ==
  \/ resp.kind = "reject"
  \/ resp.kind = "body" /\ ~resp.ok
  \/ /\ resp.kind = "body" /\ resp.ok /\ format # "text"
     /\ (resp.yaml.value # "map" \/ resp.yaml.payload = Null)

FormatAt(p) == providerConfig(providers, Value(rules[idx[p]])).format

\* C3: a fetch or parse failure on a RULE-SET line aborts the evaluation:
\* when the fetch settles with a failure matchDomain throws and returns
\* nothing, and the failing line is not skipped (the loop stays at it),
\* whatever the rules after it are.
C3_ProviderFailureAborts ==
  [][\A p \in Procs :
       (pc[p] = "fetch" /\ pc'[p] # "fetch" /\ FailureFor(response'[p], FormatAt(p)))
         => /\ pc'[p] = "error"
            /\ result'[p] = Thrown
            /\ idx'[p] = idx[p] /\ seen'[p] = seen[p]
            /\ providerCache' = providerCache]_vars

\* The provider failed on the first rule and the rule after it is MATCH.
C3_Witness ==
  \E p \in Procs :
    /\ pc[p] = "error" /\ idx[p] = 1 /\ Len(rules) = 2 /\ rules[2] = MatchLine
    /\ response[p].kind = "body" /\ response[p].ok

\* A RULE-SET line whose provider name is no key of rule-providers.
Dangling(ruleString) ==
  /\ Len(split(ruleString)) >= 2
  /\ Kind(ruleString) = <<"RULE-SET">>
  /\ Value(ruleString) \notin DOMAIN providers

Kept == {i \in 1..Len(rules) : ~Dangling(rules[i])}
KeptList ==
  LET F[i \in 0..Len(rules)] ==
        IF i = 0 THEN <<>>
        ELSE IF i \in Kept THEN Append(F[i - 1], rules[i]) ELSE F[i - 1]
  IN F[Len(rules)]

\* C4 as stated: the result is the same as if the dangling lines were removed
\* from the list; the resolved address is part of the result, and without the
\* lines the address is resolved only if the rest of the list is IP based.
C4_SameResultWithoutLine ==
  \A p \in Procs :
    (Returned(p) /\ result[p].kind = "match" /\ Kept # 1..Len(rules)) =>
      result[p].resolvedIp = IF hasIpBasedRules(KeptList) THEN resolvedIp[p] ELSE Null

\* The address an evaluation of the list without the dangling lines has.
KeptIp(p) == IF hasIpBasedRules(KeptList) THEN resolvedIp[p] ELSE Null

\* C4 amended: a dangling RULE-SET line never matches, raises no error and
\* issues no fetch, and the matchingRule, subMatchingRule and finalPolicy
\* returned are those of the list without the line: the first rule among the
\* others that matches, or null if none of them does.
C4_DanglingLineInert ==
  \A p \in Procs :
    /\ \A i \in 1..Len(rules) :
         Dangling(rules[i]) =>
           /\ ~Matched(p, i)
           /\ pc[p] \in {"fetch", "error"} => idx[p] # i
           /\ Evaluated(p, i) => seen[p][i] = NoRules
    /\ Returned(p) =>
         IF \E i \in Kept : RuleMatchesWith(p, i, KeptIp(p))
         THEN /\ result[p].kind = "match"
              /\ idx[p] \in Kept
              /\ RuleMatchesWith(p, idx[p], KeptIp(p))
              /\ \A j \in Kept : j < idx[p] => ~RuleMatchesWith(p, j, KeptIp(p))
              /\ result[p].subMatchingRule =
                   IF Kind(rules[idx[p]]) = <<"RULE-SET">>
                   THEN ruleSetMatch(impl, domain[p], KeptIp(p), seen[p][idx[p]],
                          providerConfig(providers, Value(rules[idx[p]])).behavior)
                   ELSE Null
              /\ result[p].finalPolicy = split(rules[idx[p]])[Len(split(rules[idx[p]]))]
         ELSE result[p] = NoMatch

\* The evaluation went past a dangling line and returned the rule after it.
C4_Witness ==
  \E p \in Procs :
    /\ Returned(p) /\ result[p].kind = "match" /\ idx[p] = 2
    /\ Dangling(rules[1]) /\ fetches[p] = 0

\* The suffix relation of the claim: d is v, or ends with "." and v, in any
\* case of the letters.
IsSuffixOf(d, v) ==
  LET ld == toLowerCase(d)
      lv == toLowerCase(v)
  IN ld = lv \/ (Len(ld) > Len(lv) /\ SubSeq(ld, Len(ld) - Len(lv), Len(ld)) = <<".">> \o lv)

\* C5: a top-level rule DOMAIN-SUFFIX,v,P that is evaluated matches exactly
\* when the domain is v or ends with "." and v, in any case of the letters.
C5_DomainSuffixRule ==
  \A p \in Procs : \A i \in 1..Len(rules) :
    (Evaluated(p, i) /\ Len(split(rules[i])) >= 2 /\ Kind(rules[i]) = <<"DOMAIN-SUFFIX">>)
      => (Matched(p, i) <=> IsSuffixOf(domain[p], Value(rules[i])))

\* C6: a RULE-SET line of an inline classical provider whose payload holds
\* the line DOMAIN-SUFFIX,v matches every domain that is v or a subdomain of
\* v, and if that line is the whole payload it is the subMatchingRule.
C6_InlineClassicalSuffix ==
  \A p \in Procs : \A i \in 1..Len(rules) :
    LET config == providerConfig(providers, Value(rules[i]))
    IN (/\ Evaluated(p, i) /\ Len(split(rules[i])) >= 2
        /\ Kind(rules[i]) = <<"RULE-SET">>
        /\ config.type = "inline" /\ config.behavior = "classical"
        /\ \E k \in 1..Len(config.payload) :
              /\ Len(split(config.payload[k])) = 2
              /\ Kind(config.payload[k]) = <<"DOMAIN-SUFFIX">>
              /\ IsSuffixOf(domain[p], Value(config.payload[k])))
         => /\ Matched(p, i)
            /\ Len(config.payload) = 1 => result[p].subMatchingRule = config.payload[1]

\* The specificity score the claim gives a line of a behavior domain list:
\* 4000 and the length for an exact match, 3000 and the length without the
\* wildcards for a single-level wildcard match, 2000 and the length for a
\* suffix match; the other behaviors have the one score of their kind.
ClaimScore(line, d, ip, behavior) ==
  LET ld == toLowerCase(d)
  IN IF behavior # "domain" THEN lineScore(line, ld, ip, behavior)
     ELSE IF startsWith(line, <<"+", ".">>)
     THEN IF ld = substring(line, 2) THEN ExactScore + Len(line) - 2
          ELSE IF IsSuffixOf(ld, substring(line, 2)) THEN SuffixScore + Len(line) - 2
          ELSE NoScore
     ELSE IF startsWith(line, <<".">>)
     THEN IF ld # substring(line, 1) /\ IsSuffixOf(ld, substring(line, 1))
          THEN SuffixScore + Len(line) - 1
          ELSE NoScore
     ELSE IF includes(line, <<"*">>)
     THEN IF isWildcardMatch(ld, line)
          THEN WildcardScore + Len(without(line, "*"))
          ELSE NoScore
     ELSE IF ld = line THEN ExactScore + Len(line) ELSE NoScore

\* The line of a provider list the claim names: the one of the highest score,
\* the first of them in the list.
BestLine(list, d, ip, behavior) ==
  LET score(k) == ClaimScore(list[k], d, ip, behavior)
      best == CHOOSE k \in 1..Len(list) :
                /\ \A j \in 1..Len(list) : score(j) <= score(k)
                /\ \A j \in 1..(k - 1) : score(j) < score(k)
  IN list[best]

\* C7: the subMatchingRule of a RULE-SET match is the line of the provider's
\* list with the highest specificity score, the first of them on a tie,
\* wherever it stands in the list.
C7_BestSubRuleWins ==
  \A p \in Procs :
    (Returned(p) /\ result[p].kind = "match" /\ result[p].subMatchingRule # Null) =>
      result[p].subMatchingRule =
        BestLine(seen[p][idx[p]], domain[p], resolvedIp[p],
                 providerConfig(providers, Value(rules[idx[p]])).behavior)

\* The kinds of rule the claim speaks of.
IsOfKind(ruleString, kinds) == Len(split(ruleString)) >= 1 /\ Kind(ruleString) \in kinds

\* C8 as stated: no name is resolved when no rule is of kind IP-CIDR or
\* RULE-SET.
C8_NoLookupWithoutIpKinds ==
  \A p \in Procs :
    (\A i \in 1..Len(rules) : ~IsOfKind(rules[i], {<<"IP-CIDR">>, <<"RULE-SET">>}))
      => lookups[p] = 0

\* C8 amended: an evaluation resolves the name at most once, before any rule
\* is evaluated, and not at all when no rule line begins with IP-CIDR or
\* RULE-SET in any case of the letters (a line of another kind that begins so,
\* such as IP-CIDR6, does start a resolution); a list of DOMAIN,
\* DOMAIN-SUFFIX, DOMAIN-KEYWORD and MATCH lines never does.
C8_OneLookupUpFront ==
  \A p \in Procs :
    /\ lookups[p] <= 1
    /\ pc[p] = "dns" => (lookups[p] = 1 /\ seen[p] = <<>> /\ idx[p] = 1)
    /\ (pc[p] \in {"loop", "fetch", "done", "error"} /\ lookups[p] = 0)
         => resolvedIp[p] = Null
    /\ (\A i \in 1..Len(rules) :
          /\ ~startsWith(toUpperCase(rules[i]), <<"IP-CIDR">>)
          /\ ~startsWith(toUpperCase(rules[i]), <<"RULE-SET">>))
         => lookups[p] = 0
    /\ (\A i \in 1..Len(rules) :
          IsOfKind(rules[i], {<<"DOMAIN">>, <<"DOMAIN-SUFFIX">>, <<"DOMAIN-KEYWORD">>,
                              <<"MATCH">>}))
         => lookups[p] = 0

\* A list of two domain rules was evaluated to its end without a lookup.
C8_Witness ==
  \E p \in Procs :
    /\ Returned(p) /\ lookups[p] = 0 /\ Len(seen[p]) = 2
    /\ rules = <<SuffixLine, KeywordLine>>

\* C9: when the resolution gave no address the evaluation does not fail for
\* it, and no IP-CIDR rule, no line of an ipcidr provider and no IP-CIDR line
\* of a classical provider is the matching rule or sub-rule.
C9_NoAddressNoIpMatch ==
  \A p \in Procs :
    (pc[p] \in {"loop", "fetch", "done", "error"} /\ resolvedIp[p] = Null) =>
      /\ pc[p] = "error" => response[p] # NoResponse
      /\ (Returned(p) /\ result[p].kind = "match") =>
           /\ Kind(result[p].matchingRule) # <<"IP-CIDR">>
           /\ result[p].resolvedIp = Null
           /\ result[p].subMatchingRule # Null =>
                /\ providerConfig(providers, Value(result[p].matchingRule)).behavior
                     # "ipcidr"
                /\ Kind(result[p].subMatchingRule) # <<"IP-CIDR">>

\* A lookup was made and gave no address, and the evaluation went past an
\* IP-CIDR rule and returned.
C9_Witness ==
  \E p \in Procs :
    /\ Returned(p) /\ lookups[p] = 1 /\ resolvedIp[p] = Null
    /\ rules[1] = CidrLine /\ Len(seen[p]) = 2

\* C10: if the list holds a line MATCH,P and no provider fails, matchDomain
\* does not return null; with the list ["MATCH,DIRECT"] the policy returned
\* is DIRECT for every domain.
C10_MatchAlwaysMatches ==
  \A p \in Procs :
    Returned(p) =>
      /\ (\E i \in 1..Len(rules) :
            Len(split(rules[i])) = 2 /\ Kind(rules[i]) \in {<<"MATCH">>, <<"FINAL">>})
           => result[p].kind = "match"
      /\ rules = <<MatchLine>> =>
           (result[p].kind = "match" /\ result[p].finalPolicy = <<"DIRECT">>)

\* The rules before MATCH did not match and MATCH was returned.
C10_Witness ==
  \E p \in Procs :
    /\ Returned(p) /\ idx[p] = 2 /\ rules = <<SuffixLine, MatchLine>>
    /\ result[p].matchingRule = MatchLine /\ domain[p] = Glued

\* C11: the provider cache is append-only: in every step, a URL that has a
\* cache entry keeps that entry, with the same rule sequence.
C11_CacheAppendOnly ==
  [][\A u \in DOMAIN providerCache :
       providerCache[u] # NoRules => providerCache'[u] = providerCache[u]]_vars

\* Rule i is a RULE-SET line of a provider fetched from url u.
HttpLineOf(i, u) ==
  /\ i \in 1..Len(rules)
  /\ Len(split(rules[i])) >= 2
  /\ Kind(rules[i]) = <<"RULE-SET">>
  /\ providerConfig(providers, Value(rules[i])).type = "http"
  /\ providerConfig(providers, Value(rules[i])).url = u

\* The call of getRulesFromProvider evaluation q made for its rule i has
\* returned the rule sequence r.
CallReturned(q, i, u, r) ==
  /\ HttpLineOf(i, u)
  /\ Evaluated(q, i)
  /\ r # NoRules
  /\ seen[q][i] = r

\* Evaluation p calls getRulesFromProvider for u in this step.
CallStarts(p, u) ==
  /\ pc[p] = "loop"
  /\ HttpLineOf(idx[p], u)
  /\ (pc'[p] # "loop" \/ idx'[p] # idx[p])

\* C12: once a call of getRulesFromProvider for u has returned a rule
\* sequence, every call for u that starts after it issues no fetch and
\* returns that same sequence.
C12_LaterCallsServedFromCache ==
  [][\A p, q \in Procs : \A i \in 1..Len(rules) : \A u \in DOMAIN providerCache :
       (CallStarts(p, u) /\ CallReturned(q, i, u, seen[q][i]))
         => /\ pc'[p] # "fetch"
            /\ fetches'[p] = fetches[p]
            /\ Len(seen'[p]) = idx[p]
            /\ seen'[p][idx[p]] = seen[q][i]]_vars

\* C17: a fetch that settles with a failure leaves the cache as it was, ends
\* the evaluation with an error after the one fetch it issued, and nothing
\* fetches again until the caller starts a new evaluation; the URL is still
\* without a cache entry then, and a call for a URL without a cache entry
\* issues a fetch.
C17_FailureNotCachedNoRetry ==
  [][\A p \in Procs :
       /\ (pc[p] = "fetch" /\ pc'[p] # "fetch"
             /\ FailureFor(response'[p], FormatAt(p)))
            => /\ providerCache' = providerCache
               /\ pc'[p] = "error" /\ result'[p] = Thrown
               /\ fetches[p] = 1 /\ fetches'[p] = 1
       /\ pc[p] = "error"
            => /\ providerCache[Url] = NoRules
               /\ pc'[p] # "fetch"
               /\ pc'[p] # "error" => (fetches'[p] = 0 /\ result'[p] = NoResult)
       /\ (CallStarts(p, Url) /\ providerCache[Url] = NoRules)
            => (pc'[p] = "fetch" /\ fetches'[p] = fetches[p] + 1)]_vars

\* The fetch was rejected, the evaluation ended with an error after one
\* fetch, and the URL has no cache entry.
C17_Witness ==
  \E p \in Procs :
    /\ pc[p] = "error" /\ result[p] = Thrown /\ fetches[p] = 1
    /\ response[p].kind = "reject"
    /\ providerCache[Url] = NoRules
    /\ rules = <<InlineSetLine, HttpSetLine>>

\* The one payload line of the inline provider.
Pattern == providers[<<"i">>].payload[1]

\* d ends with "." and s, in any case of the letters.
EndsWithDot(d, s) ==
  \E k \in 0..Len(d) :
    toLowerCase(d) = toLowerCase(SubSeq(d, 1, k)) \o <<".">> \o toLowerCase(s)

\* The evaluation of the one RULE-SET rule is over: it matched or not.
Decided(p) == Returned(p) /\ providers[<<"i">>].behavior = "domain" /\ rules = <<InlineSetLine>>

\* C13: isWildcardMatch(d, "+." + s) is true exactly when d is s or ends
\* with "." + s, in any case of the letters; the RULE-SET rule of network.ts
\* whose provider holds that line matches exactly then.
C13_EagerSuffixPattern ==
  \A p \in Procs :
    (Decided(p) /\ startsWith(Pattern, <<"+", ".">>)) =>
      LET s == substring(Pattern, 2)
          expected == toLowerCase(domain[p]) = toLowerCase(s) \/ EndsWithDot(domain[p], s)
      IN /\ isWildcardMatch(domain[p], Pattern) <=> expected
         /\ impl = "network" => ((result[p].kind = "match") <=> expected)

\* A subdomain two levels down was decided against the '+.' line of the
\* root, and matched.
C13_Witness ==
  \E p \in Procs :
    /\ Decided(p) /\ impl = "network" /\ Pattern = EagerSuffix
    /\ domain[p] = Deep /\ result[p].kind = "match"

\* C14: isWildcardMatch(d, "." + s) is true exactly when d ends with
\* "." + s, so never for d = s; the RULE-SET rule of network.ts whose
\* provider holds that line matches exactly then.
C14_DotSuffixPattern ==
  \A p \in Procs :
    (Decided(p) /\ startsWith(Pattern, <<".">>)) =>
      LET s == substring(Pattern, 1)
          expected == EndsWithDot(domain[p], s)
      IN /\ isWildcardMatch(domain[p], Pattern) <=> expected
         /\ toLowerCase(domain[p]) = toLowerCase(s) => ~isWildcardMatch(domain[p], Pattern)
         /\ impl = "network" => ((result[p].kind = "match") <=> expected)

\* The root was decided against the '.' line of its own name, and did not
\* match.
C14_Witness ==
  \E p \in Procs :
    /\ Decided(p) /\ impl = "network" /\ Pattern = DotSuffix
    /\ domain[p] = Root /\ result[p] = NoMatch

\* A label of a domain against a label of a pattern, where "*" stands for
\* one or more characters.
RECURSIVE GlobLabel(_, _)
GlobLabel(pl, dl) ==
  IF pl = <<>> THEN dl = <<>>
  ELSE IF Head(pl) = "*"
  THEN \E k \in 1..Len(dl) : GlobLabel(Tail(pl), SubSeq(dl, k + 1, Len(dl)))
  ELSE dl # <<>> /\ Head(dl) = Head(pl) /\ GlobLabel(Tail(pl), Tail(dl))

\* The wildcard match of the claim: as many labels as the pattern, each
\* matching its label of the pattern.
SingleLevelMatch(d, pattern) ==
  LET dl == splitOn(toLowerCase(d), ".")
      pl == splitOn(toLowerCase(pattern), ".")
  IN /\ Len(dl) = Len(pl)
     /\ \A k \in 1..Len(pl) : GlobLabel(pl[k], dl[k])

IsWildcardPattern(pattern) ==
  /\ includes(pattern, <<"*">>)
  /\ ~startsWith(pattern, <<"+", ".">>)
  /\ ~startsWith(pattern, <<".">>)

\* C15: a provider line with "*" matches a domain exactly when the domain
\* has as many labels as the line and each "*" stands for one non-empty
\* label (or part of one): "*.g.c" matches w.g.c and neither a.w.g.c nor
\* g.c, and "*" matches a name without a dot.
C15_WildcardSingleLevel ==
  \A p \in Procs :
    (Decided(p) /\ IsWildcardPattern(Pattern)) =>
      ((result[p].kind = "match") <=> SingleLevelMatch(domain[p], Pattern))

\* C16: for a pattern without "*" that does not start with "+." or ".",
\* isWildcardMatch(d, p) is true exactly when d and p are equal once both
\* are in lower case; the RULE-SET rule of network.ts whose provider holds
\* that line matches exactly then.
C16_ExactPattern ==
  \A p \in Procs :
    (/\ Decided(p)
     /\ ~includes(Pattern, <<"*">>)
     /\ ~startsWith(Pattern, <<"+", ".">>)
     /\ ~startsWith(Pattern, <<".">>)) =>
      LET expected == toLowerCase(domain[p]) = toLowerCase(Pattern)
      IN /\ isWildcardMatch(domain[p], Pattern) <=> expected
         /\ impl = "network" => ((result[p].kind = "match") <=> expected)

\* A subdomain was decided against the exact line of its parent, and did not
\* match.
C16_Witness ==
  \E p \in Procs :
    /\ Decided(p) /\ impl = "network" /\ Pattern = Root
    /\ domain[p] = Sub /\ result[p] = NoMatch
====
